---- MODULE Spec2Model ----
(***************************************************************************)
(* Thrill Digger Calculator: the probability engine of src/src/solver.h    *)
(* (class ThrillDiggerSolver) as a state machine.                          *)
(*                                                                         *)
(* State: the solver's two public arrays, grid and badProb, plus history   *)
(* variables recording the last operation called.                           *)
(* Operations: reset(), setCell(row, col, content), solve().                *)
(*                                                                         *)
(* Numbers.  The code stores counts and probabilities in double.  Every    *)
(* count the solver builds (enumeration counts, binomials, convolutions)   *)
(* is an integer below 2^53, so it is exact in double; a probability is    *)
(* one IEEE division numerator / totalWays (or remainingBad / size) of two *)
(* such exact integers, i.e. the correctly rounded value of a rational.    *)
(* The model keeps that rational, in lowest terms, as <<num, den>>: two    *)
(* probabilities with equal rationals are equal doubles.  Sums of          *)
(* probabilities are taken over the rationals (the code's doubles agree    *)
(* with them up to rounding).                                              *)
(*                                                                         *)
(* Vectors.  A std::vector is a sequence; the element the code calls v[i]  *)
(* is v[i + 1] here.                                                        *)
(***************************************************************************)
EXTENDS Integers, Sequences, FiniteSets, TLC

(***************************************************************************)
(* Board geometry.  The reference instance is ROWS = 5, COLS = 8,          *)
(* TOTAL_BAD = 16; the model runs the same code on a 2 x 5 board with 4 bad *)
(* items (the same density, 0.4), where every count fits TLC's integers.   *)
(***************************************************************************)
ROWS == 2

COLS == 5

TOTAL_BAD == 4

TOTAL_CELLS == ROWS * COLS

Cells == 0 .. (TOTAL_CELLS - 1)

(***************************************************************************)
(* enum class CellContent                                                  *)
(***************************************************************************)
Undug == 0

Green == 1

Blue == 2

Red == 3

Silver == 4

Gold == 5

Rupoor == 6

Bomb == 7

CellContent == Undug .. Bomb

badNeighborRange(c) ==
    CASE c = Green  -> <<0, 0>>
      [] c = Blue   -> <<1, 2>>
      [] c = Red    -> <<3, 4>>
      [] c = Silver -> <<5, 6>>
      [] c = Gold   -> <<7, 8>>
      [] OTHER      -> <<-1, -1>>

isRevealedGood(c) == c >= Green /\ c <= Gold

\* Mutant of isRevealedBad: only the Bomb counts as bad.
isRevealedBadBombOnly(c) == c = Bomb

isRevealedBad(c) == c = Rupoor \/ c = Bomb

isRevealed(c) == c # Undug

(***************************************************************************)
(* Arithmetic helpers                                                      *)
(***************************************************************************)
Max(a, b) == IF a >= b THEN a ELSE b

Min(a, b) == IF a <= b THEN a ELSE b

RECURSIVE Gcd(_, _)
Gcd(a, b) == IF b = 0 THEN a ELSE Gcd(b, a % b)

\* The double n / d (n >= 0, d > 0 integers exact in double), kept as the
\* rational in lowest terms.
Div(n, d) == LET g == Gcd(n, d) IN <<n \div g, d \div g>>

Zero == Div(0, 1)

One == Div(1, 1)

RatLess(p, q) == p[1] * q[2] < q[1] * p[2]

RatLeq(p, q) == p[1] * q[2] <= q[1] * p[2]

RatAdd(p, q) == Div(p[1] * q[2] + q[1] * p[2], p[2] * q[2])

RECURSIVE SumUpTo(_, _)
SumUpTo(s, n) == IF n = 0 THEN 0 ELSE s[n] + SumUpTo(s, n - 1)

SumSeq(s) == SumUpTo(s, Len(s))

Range(s) == {s[i] : i \in DOMAIN s}

\* An array value built once: the function f itself, with every element
\* evaluated when the array is built rather than at each later read.
Vec(f) == IF f = f THEN f ELSE f

(***************************************************************************)
(* static double binomial(int n, int k)                                    *)
(***************************************************************************)
RECURSIVE binomialLoop(_, _, _, _)
binomialLoop(n, k, i, result) ==
    IF i < k
    THEN binomialLoop(n, k, i + 1, (result * (n - i)) \div (i + 1))
    ELSE result

binomial(n, k) ==
    IF k < 0 \/ k > n THEN 0
    ELSE IF k = 0 \/ k = n THEN 1
    ELSE binomialLoop(n, IF k > n - k THEN n - k ELSE k, 0, 1)

(***************************************************************************)
(* ThrillDiggerSolver::getNeighbors                                        *)
(***************************************************************************)
Offsets == << <<-1, -1>>, <<-1, 0>>, <<-1, 1>>,
              << 0, -1>>, << 0, 0>>, << 0, 1>>,
              << 1, -1>>, << 1, 0>>, << 1, 1>> >>

\* Mutant of getNeighbors: the diagonal neighbours are left out.
getNeighborsOrthogonal(idx) ==
    LET r == idx \div COLS
        c == idx % COLS
        InBounds(o) ==
            /\ (o[1] = 0) # (o[2] = 0)
            /\ r + o[1] >= 0 /\ r + o[1] < ROWS
            /\ c + o[2] >= 0 /\ c + o[2] < COLS
        kept == SelectSeq(Offsets, InBounds)
    IN Vec([i \in 1 .. Len(kept) |-> (r + kept[i][1]) * COLS + (c + kept[i][2])])

\* Mutant of getNeighborsAt: the test nc < cols is left out, so a cell of the
\* last column picks up cells of the next row's first column.
getNeighborsAtNoRightEdge(rows, cols, idx) ==
    LET r == idx \div cols
        c == idx % cols
        InBounds(o) ==
            /\ ~(o[1] = 0 /\ o[2] = 0)
            /\ r + o[1] >= 0 /\ r + o[1] < rows
            /\ c + o[2] >= 0
        kept == SelectSeq(Offsets, InBounds)
    IN Vec([i \in 1 .. Len(kept) |-> (r + kept[i][1]) * cols + (c + kept[i][2])])

\* The body of getNeighbors, with the constexpr dimensions it reads (ROWS,
\* COLS) as parameters.
getNeighborsAt(rows, cols, idx) ==
    LET r == idx \div cols
        c == idx % cols
        InBounds(o) ==
            /\ ~(o[1] = 0 /\ o[2] = 0)
            /\ r + o[1] >= 0 /\ r + o[1] < rows
            /\ c + o[2] >= 0 /\ c + o[2] < cols
        kept == SelectSeq(Offsets, InBounds)
    IN Vec([i \in 1 .. Len(kept) |-> (r + kept[i][1]) * cols + (c + kept[i][2])])

getNeighbors(idx) == getNeighborsAt(ROWS, COLS, idx)

(***************************************************************************)
(* ThrillDiggerSolver::convolve                                            *)
(***************************************************************************)
convolve(a, b) ==
    IF Len(a) = 0 \/ Len(b) = 0 THEN <<>>
    ELSE Vec([n \in 1 .. (Len(a) + Len(b) - 1) |->
                SumSeq([i \in 1 .. Len(a) |->
                          IF n - i + 1 >= 1 /\ n - i + 1 <= Len(b)
                          THEN a[i] * b[n - i + 1] ELSE 0])])

(***************************************************************************)
(* struct UnionFind: parent is a sequence over frontier indices 0..n-1     *)
(* (parent[x + 1] is the code's parent[x]).                                *)
(***************************************************************************)
UnionFind(n) == Vec([i \in 1 .. n |-> i - 1])

RECURSIVE ufRoot(_, _)
ufRoot(parent, x) == IF parent[x + 1] = x THEN x ELSE ufRoot(parent, parent[x + 1])

RECURSIVE ufPath(_, _)
ufPath(parent, x) ==
    IF parent[x + 1] = x THEN {} ELSE {x} \cup ufPath(parent, parent[x + 1])

\* find(x): returns <<root, parent after path compression>>.
find(parent, x) ==
    LET root == ufRoot(parent, x)
        path == ufPath(parent, x)
    IN <<root, Vec([i \in 1 .. Len(parent) |-> IF (i - 1) \in path THEN root ELSE parent[i]])>>

\* unite(a, b): the parent array afterwards.
unite(parent, a, b) ==
    LET fa == find(parent, a)
        fb == find(fa[2], b)
    IN IF fa[1] # fb[1] THEN [fb[2] EXCEPT ![fa[1] + 1] = fb[1]] ELSE fb[2]

(***************************************************************************)
(* solve(), Step 1: Classification                                         *)
(***************************************************************************)
CellSeq == Vec([i \in 1 .. TOTAL_CELLS |-> i - 1])

unknownCells(g) == SelectSeq(CellSeq, LAMBDA i : ~isRevealedBad(g[i]) /\ ~isRevealedGood(g[i]))

constraintCells(g) == SelectSeq(CellSeq, LAMBDA i : ~isRevealedBad(g[i]) /\ isRevealedGood(g[i]))

knownBad(g) == Cardinality({i \in Cells : isRevealedBad(g[i])})

remainingBad(g) == TOTAL_BAD - knownBad(g)

\* The writes of the classification loop: 1.0 for a revealed bad cell, 0.0 for
\* a revealed clue, nothing for an unknown cell.
\* Mutant of Classify: a revealed clue's probability is not written.
ClassifyBadOnly(g, bp) ==
    Vec([i \in Cells |-> IF isRevealedBad(g[i]) THEN One ELSE bp[i]])

Classify(g, bp) ==
    Vec([i \in Cells |->
            IF isRevealedBad(g[i]) THEN One
            ELSE IF isRevealedGood(g[i]) THEN Zero
            ELSE bp[i]])

(***************************************************************************)
(* solve(), Step 2: Separation                                             *)
(***************************************************************************)
frontierSet(g) ==
    LET unknownSet == Range(unknownCells(g))
    IN {n \in Cells : n \in unknownSet /\
            \E ci \in Range(constraintCells(g)) : n \in Range(getNeighbors(ci))}

\* std::vector frontier(frontierSet.begin(), frontierSet.end()); std::sort
frontier(g) == LET fs == frontierSet(g) IN SelectSeq(CellSeq, LAMBDA i : i \in fs)

interior(g) == LET fs == frontierSet(g) IN SelectSeq(unknownCells(g), LAMBDA i : i \notin fs)

\* std::lower_bound(frontier.begin(), frontier.end(), n) - frontier.begin()
lowerBound(fr, n) == Cardinality({k \in 1 .. Len(fr) : fr[k] < n})

(***************************************************************************)
(* solve(), Step 3: Build Constraints                                      *)
(***************************************************************************)
\* Mutant of buildConstraint: adjMin is not clamped to the number of hidden
\* neighbours.
buildConstraintMinUnclamped(g, fr, fs, ci) ==
    LET range == badNeighborRange(g[ci])
        nbrs == getNeighbors(ci)
        knownBadN == Cardinality({k \in 1 .. Len(nbrs) : isRevealedBad(g[nbrs[k]])})
        fn == SelectSeq(nbrs, LAMBDA n : ~isRevealedBad(g[n]) /\ n \in fs)
        fnbrs == Vec([k \in 1 .. Len(fn) |-> lowerBound(fr, fn[k])])
    IN [frontierLocalIdx |-> fnbrs,
        minBad |-> Max(0, range[1] - knownBadN),
        maxBad |-> Min(Max(0, range[2] - knownBadN), Len(fnbrs))]

\* Mutant of buildConstraint: a negative adjMax is not raised to 0.
buildConstraintMaxNegative(g, fr, fs, ci) ==
    LET range == badNeighborRange(g[ci])
        nbrs == getNeighbors(ci)
        knownBadN == Cardinality({k \in 1 .. Len(nbrs) : isRevealedBad(g[nbrs[k]])})
        fn == SelectSeq(nbrs, LAMBDA n : ~isRevealedBad(g[n]) /\ n \in fs)
        fnbrs == Vec([k \in 1 .. Len(fn) |-> lowerBound(fr, fn[k])])
    IN [frontierLocalIdx |-> fnbrs,
        minBad |-> Min(Max(0, range[1] - knownBadN), Len(fnbrs)),
        maxBad |-> Min(range[2] - knownBadN, Len(fnbrs))]

\* The body of the loop for clue cell ci; the constraint is pushed only when
\* fnbrs is not empty.
buildConstraint(g, fr, fs, ci) ==
    LET range == badNeighborRange(g[ci])
        minB == range[1]
        maxB == range[2]
        nbrs == getNeighbors(ci)
        knownBadN == Cardinality({k \in 1 .. Len(nbrs) : isRevealedBad(g[nbrs[k]])})
        fn == SelectSeq(nbrs, LAMBDA n : ~isRevealedBad(g[n]) /\ n \in fs)
        fnbrs == Vec([k \in 1 .. Len(fn) |-> lowerBound(fr, fn[k])])
        adjMin0 == Max(0, minB - knownBadN)
        adjMax0 == IF maxB - knownBadN < 0 THEN 0 ELSE maxB - knownBadN
        adjMax == Min(adjMax0, Len(fnbrs))
        adjMin == Min(adjMin0, Len(fnbrs))
    IN [frontierLocalIdx |-> fnbrs, minBad |-> adjMin, maxBad |-> adjMax]

constraints(g) ==
    LET fr == frontier(g)
        fs == frontierSet(g)
        cc == constraintCells(g)
        all == Vec([k \in 1 .. Len(cc) |-> buildConstraint(g, fr, fs, cc[k])])
    IN SelectSeq(all, LAMBDA con : Len(con.frontierLocalIdx) # 0)

(***************************************************************************)
(* solve(), Step 4: Partition into Components                              *)
(***************************************************************************)
\* Mutant of uniteConstraint: only the first two cells of the constraint are
\* united.
uniteConstraintFirstPair(parent, idx, i) ==
    IF Len(idx) >= 2 THEN unite(parent, idx[1], idx[2]) ELSE parent

\* for (i = 1; i < size; i++) uf.unite(idx[0], idx[i]);
RECURSIVE uniteConstraint(_, _, _)
uniteConstraint(parent, idx, i) ==
    IF i < Len(idx)
    THEN uniteConstraint(unite(parent, idx[1], idx[i + 1]), idx, i + 1)
    ELSE parent

RECURSIVE uniteAll(_, _, _)
uniteAll(parent, cons, k) ==
    IF k <= Len(cons)
    THEN uniteAll(uniteConstraint(parent, cons[k].frontierLocalIdx, 1), cons, k + 1)
    ELSE parent

partition(g) == uniteAll(UnionFind(Len(frontier(g))), constraints(g), 1)

\* components[uf.find(i)].push_back(i): the members of the component of root,
\* in ascending frontier index.
members(parent, root) ==
    SelectSeq(UnionFind(Len(parent)), LAMBDA i : ufRoot(parent, i) = root)

\* The keys of the components map.  std::unordered_map leaves the iteration
\* order unspecified; the roots are taken in ascending order.
componentRoots(parent) ==
    LET roots == {ufRoot(parent, i - 1) : i \in 1 .. Len(parent)}
    IN SelectSeq(UnionFind(Len(parent)), LAMBDA r : r \in roots)

(***************************************************************************)
(* solve(), Step 5: Solve Each Component Independently                     *)
(***************************************************************************)
\* globalToLocal[members[i]] = i
globalToLocal(mem, fi) == (CHOOSE k \in 1 .. Len(mem) : mem[k] = fi) - 1

\* Filter the constraints relevant to the component of root and remap them.
localConstraints(parent, cons, root, mem) ==
    LET relevant(con) ==
            \E k \in 1 .. Len(con.frontierLocalIdx) :
                ufRoot(parent, con.frontierLocalIdx[k]) = root
        rel == SelectSeq(cons, relevant)
        remap(con) ==
            LET kept == SelectSeq(con.frontierLocalIdx, LAMBDA fi : fi \in Range(mem))
            IN [localIdx |-> Vec([k \in 1 .. Len(kept) |-> globalToLocal(mem, kept[k])]),
                minBad |-> con.minBad, maxBad |-> con.maxBad]
    IN Vec([k \in 1 .. Len(rel) |-> remap(rel[k])])

\* cellConstraints[li]: the (0-based) indices of the local constraints that
\* mention local cell li, ascending.
cellConstraints(lcs, compSize) ==
    Vec([li1 \in 1 .. compSize |->
            SelectSeq(UnionFind(Len(lcs)),
                      LAMBDA ci : \E k \in 1 .. Len(lcs[ci + 1].localIdx) :
                                      lcs[ci + 1].localIdx[k] = li1 - 1)])

\* std::sort(order, by cellConstraints[a].size() > cellConstraints[b].size()).
\* std::sort is not stable; equal keys are kept in ascending cell order here.
cellOrder(cc, compSize) ==
    LET before(a, b) ==
            \/ Len(cc[a + 1]) > Len(cc[b + 1])
            \/ Len(cc[a + 1]) = Len(cc[b + 1]) /\ a < b
    IN Vec([p \in 1 .. compSize |->
                CHOOSE a \in 0 .. (compSize - 1) :
                    Cardinality({b \in 0 .. (compSize - 1) : before(b, a)}) = p - 1])

\* Mutant of cellOrderPos: orderPos[i] = i, the position of a cell is taken
\* to be its index.
cellOrderPosIndex(order) == Vec([c1 \in 1 .. Len(order) |-> c1 - 1])

\* orderPos[order[i]] = i
cellOrderPos(order) ==
    Vec([c1 \in 1 .. Len(order) |-> (CHOOSE i \in 1 .. Len(order) : order[i] = c1 - 1) - 1])

(***************************************************************************)
(* ThrillDiggerSolver::enumerateComponent                                  *)
(* acc is the pair of output arrays: acc.counts and acc.badCnts.           *)
(***************************************************************************)
\* Mutant of assignmentValid: the first test rejects badCount >= maxBad.
assignmentValidStrictMax(pos, cell, orderPos, assignment, cc, lcs) ==
    \A k \in 1 .. Len(cc[cell + 1]) :
        LET lc == lcs[cc[cell + 1][k] + 1]
            idx == lc.localIdx
            badCount == Cardinality({j \in 1 .. Len(idx) :
                            orderPos[idx[j] + 1] <= pos /\ assignment[idx[j] + 1] = 1})
            unassignedCount == Cardinality({j \in 1 .. Len(idx) : ~(orderPos[idx[j] + 1] <= pos)})
        IN /\ ~(badCount >= lc.maxBad)
           /\ IF unassignedCount = 0
              THEN ~(badCount < lc.minBad)
              ELSE ~(badCount + unassignedCount < lc.minBad)

\* The constraint check run after assignment[cell] = val.
assignmentValid(pos, cell, orderPos, assignment, cc, lcs) ==
    \A k \in 1 .. Len(cc[cell + 1]) :
        LET lc == lcs[cc[cell + 1][k] + 1]
            idx == lc.localIdx
            \* assignment holds 0 or 1: the sum over the decided cells is the
            \* number of them set to 1
            badCount == Cardinality({j \in 1 .. Len(idx) :
                            orderPos[idx[j] + 1] <= pos /\ assignment[idx[j] + 1] = 1})
            unassignedCount == Cardinality({j \in 1 .. Len(idx) : ~(orderPos[idx[j] + 1] <= pos)})
        IN /\ ~(badCount > lc.maxBad)
           /\ IF unassignedCount = 0
              THEN ~(badCount < lc.minBad)
              ELSE ~(badCount + unassignedCount < lc.minBad)

RECURSIVE enumerateComponent(_, _, _, _, _, _, _, _, _, _)
enumerateComponent(pos, numBad, compSize, remBad, order, orderPos, assignment, cc, lcs, acc) ==
    IF numBad > remBad THEN acc
    ELSE IF pos = compSize
    THEN [counts |-> [acc.counts EXCEPT ![numBad + 1] = @ + 1],
          badCnts |-> Vec([i \in 1 .. compSize |->
                              IF assignment[i] # 0
                              THEN [acc.badCnts[i] EXCEPT ![numBad + 1] = @ + 1]
                              ELSE acc.badCnts[i]])]
    ELSE
        LET cell == order[pos + 1]
            a0 == [assignment EXCEPT ![cell + 1] = 0]
            a1 == [assignment EXCEPT ![cell + 1] = 1]
            acc0 == IF assignmentValid(pos, cell, orderPos, a0, cc, lcs)
                    THEN enumerateComponent(pos + 1, numBad, compSize, remBad,
                                            order, orderPos, a0, cc, lcs, acc)
                    ELSE acc
        IN IF assignmentValid(pos, cell, orderPos, a1, cc, lcs)
           THEN enumerateComponent(pos + 1, numBad + 1, compSize, remBad,
                                   order, orderPos, a1, cc, lcs, acc0)
           ELSE acc0

\* if (compSize <= 40): the larger branch leaves counts empty.
MaxEnumSize == 40

\* One iteration of the component loop: the ComponentResult pushed.
componentResult(parent, cons, root, remBad) ==
    LET mem == members(parent, root)
        compSize == Len(mem)
        lcs == localConstraints(parent, cons, root, mem)
    IN IF compSize <= MaxEnumSize
       THEN LET cc == cellConstraints(lcs, compSize)
                order == cellOrder(cc, compSize)
                acc == enumerateComponent(0, 0, compSize, remBad, order, cellOrderPos(order),
                          Vec([i \in 1 .. compSize |-> 0]), cc, lcs,
                          [counts |-> Vec([k \in 1 .. (compSize + 1) |-> 0]),
                           badCnts |-> Vec([i \in 1 .. compSize |->
                                              Vec([k \in 1 .. (compSize + 1) |-> 0])])])
            IN [size |-> compSize, counts |-> acc.counts,
                badCounts |-> acc.badCnts, globalIndices |-> mem]
       ELSE [size |-> compSize, counts |-> <<>>, badCounts |-> <<>>, globalIndices |-> mem]

compResults(g) ==
    LET parent == partition(g)
        cons == constraints(g)
        roots == componentRoots(parent)
        rb == remainingBad(g)
    IN Vec([k \in 1 .. Len(roots) |-> componentResult(parent, cons, roots[k], rb)])

\* One iteration of the component loop when std::sort leaves the cells in
\* the given order.
componentResultIn(parent, cons, root, remBad, order) ==
    LET mem == members(parent, root)
        compSize == Len(mem)
        lcs == localConstraints(parent, cons, root, mem)
    IN IF compSize <= MaxEnumSize
       THEN LET cc == cellConstraints(lcs, compSize)
                acc == enumerateComponent(0, 0, compSize, remBad, order, cellOrderPos(order),
                          Vec([i \in 1 .. compSize |-> 0]), cc, lcs,
                          [counts |-> Vec([k \in 1 .. (compSize + 1) |-> 0]),
                           badCnts |-> Vec([i \in 1 .. compSize |->
                                              Vec([k \in 1 .. (compSize + 1) |-> 0])])])
            IN [size |-> compSize, counts |-> acc.counts,
                badCounts |-> acc.badCnts, globalIndices |-> mem]
       ELSE [size |-> compSize, counts |-> <<>>, badCounts |-> <<>>, globalIndices |-> mem]

\* The component loop when the components map is iterated in the order roots
\* and the cells of the k-th component taken are sorted into orders[k].
compResultsIn(g, roots, orders) ==
    LET parent == partition(g)
        cons == constraints(g)
        rb == remainingBad(g)
    IN Vec([k \in 1 .. Len(roots) |-> componentResultIn(parent, cons, roots[k], rb, orders[k])])

(***************************************************************************)
(* solve(), Step 6: Global Combination                                     *)
(***************************************************************************)
\* Mutant of interiorPoly: the loop stops at m < numInterior, the coefficient
\* of all interior cells bad is missing.
interiorPolyShort(numInterior) ==
    Vec([m1 \in 1 .. numInterior |-> binomial(numInterior, m1 - 1)])

interiorPoly(numInterior) ==
    Vec([m1 \in 1 .. (numInterior + 1) |-> binomial(numInterior, m1 - 1)])

\* The convolution of the counts of every component except the one at
\* (0-based) position skip; skip = -1 skips none.  Components whose counts are
\* empty are passed over.
RECURSIVE convolveComps(_, _, _, _)
convolveComps(results, skip, j, prod) ==
    IF j >= Len(results) THEN prod
    ELSE IF j = skip \/ Len(results[j + 1].counts) = 0
    THEN convolveComps(results, skip, j + 1, prod)
    ELSE convolveComps(results, skip, j + 1, convolve(prod, results[j + 1].counts))

compProd(results) == convolveComps(results, -1, 0, <<1>>)

\* totalPoly[remainingBad], or 0.0 past its end
totalWays(cp, ipoly, remBad) ==
    LET totalPoly == convolve(ipoly, cp)
    IN IF remBad < Len(totalPoly) THEN totalPoly[remBad + 1] ELSE 0

(***************************************************************************)
(* solve(), Step 7: Final Probability Calculation for Frontier Cells       *)
(***************************************************************************)
\* totalWithout for the component at (0-based) position ci
totalWithout(results, ci, ipoly) == convolve(convolveComps(results, ci, 0, <<1>>), ipoly)

\* Mutant of frontierNumerator: the loop stops one k early (k < instead of k <=).
frontierNumeratorShort(cr, li, tWithout, remBad) ==
    SumSeq([k1 \in 1 .. Min(cr.size, remBad) |->
              LET rest == remBad - (k1 - 1)
              IN IF rest >= 0 /\ rest < Len(tWithout)
                 THEN cr.badCounts[li + 1][k1] * tWithout[rest + 1]
                 ELSE 0])

\* numerator for local cell li of component result cr
frontierNumerator(cr, li, tWithout, remBad) ==
    SumSeq([k1 \in 1 .. (Min(cr.size, remBad) + 1) |->
              LET rest == remBad - (k1 - 1)
              IN IF rest >= 0 /\ rest < Len(tWithout)
                 THEN cr.badCounts[li + 1][k1] * tWithout[rest + 1]
                 ELSE 0])

(***************************************************************************)
(* solve(), Step 8: Probability for Interior Cells                         *)
(***************************************************************************)
\* Mutant of interiorNumerator: C(n, m) in place of C(n - 1, m - 1).
interiorNumeratorAllCells(cp, numInterior, remBad) ==
    SumSeq([m \in 1 .. Min(numInterior, remBad) |->
              LET rest == remBad - m
              IN IF rest >= 0 /\ rest < Len(cp)
                 THEN binomial(numInterior, m) * cp[rest + 1]
                 ELSE 0])

interiorNumerator(cp, numInterior, remBad) ==
    SumSeq([m \in 1 .. Min(numInterior, remBad) |->
              LET rest == remBad - m
              IN IF rest >= 0 /\ rest < Len(cp)
                 THEN binomial(numInterior - 1, m - 1) * cp[rest + 1]
                 ELSE 0])

\* Clamp probabilities to be safe
clamp(bp) ==
    Vec([i \in Cells |->
            IF RatLess(bp[i], Zero) THEN Zero
            ELSE IF RatLess(One, bp[i]) THEN One
            ELSE bp[i]])

(***************************************************************************)
(* ThrillDiggerSolver::solve: the badProb array it leaves, from the grid g *)
(* and the badProb array bp it starts with.                                *)
(***************************************************************************)
\* badProb[idx] = p for every idx of the vector cells
fill(bp, cells, p) ==
    LET cs == Range(cells) IN Vec([i \in Cells |-> IF i \in cs THEN p ELSE bp[i]])

\* where[i]: the <<component position, local index>> (both 1-based) of grid
\* cell i in results, as a set (empty for a cell outside the frontier).
frontierPlaces(fr, results) ==
    Vec([i \in Cells |->
            {<<k, li>> \in UNION {{<<k2, l2>> : l2 \in 1 .. results[k2].size} :
                                      k2 \in 1 .. Len(results)} :
                fr[results[k].globalIndices[li] + 1] = i}])

\* Step 5's write for a component too large to enumerate.
fillLarge(bp, where, results, p) ==
    Vec([i \in Cells |->
            IF \E w \in where[i] : Len(results[w[1]].counts) = 0 THEN p ELSE bp[i]])

\* Step 7's writes.
fillFrontier(bp, where, results, ipoly, remBad, tw) ==
    LET tWithout == Vec([k \in 1 .. Len(results) |->
                            IF Len(results[k].counts) = 0 THEN <<>>
                            ELSE totalWithout(results, k - 1, ipoly)])
    IN Vec([i \in Cells |->
              IF \E w \in where[i] : Len(results[w[1]].counts) # 0
              THEN LET w == CHOOSE w \in where[i] : TRUE
                   IN Div(frontierNumerator(results[w[1]], w[2] - 1, tWithout[w[1]], remBad), tw)
              ELSE bp[i]])

\* Mutant of allFound: returns without writing the unknown cells.
allFoundSkip(bp1, unk) == bp1

\* if (remainingBad <= 0): every unknown cell is written 0.0
allFound(bp1, unk) == fill(bp1, unk, Zero)

\* Mutant of noClues: badProb[idx] += p in place of badProb[idx] = p.
noCluesAdd(bp1, unk, rb) ==
    LET cs == Range(unk)
    IN Vec([i \in Cells |-> IF i \in cs THEN RatAdd(bp1[i], Div(rb, Len(unk))) ELSE bp1[i]])

\* Mutant of noClues: the bad cells already revealed are not subtracted.
noCluesTotalBad(bp1, unk, rb) == fill(bp1, unk, Div(TOTAL_BAD, Len(unk)))

\* if (constraintCells.empty()): the uniform probability
noClues(bp1, unk, rb) == fill(bp1, unk, Div(rb, Len(unk)))

\* Mutant of contradiction: the fallback is the prior of reset().
contradictionPrior(bp2, unk, rb) == fill(bp2, unk, Div(TOTAL_BAD, TOTAL_CELLS))

\* if (totalWays <= 0.0): the fallback, returned before the clamp
contradiction(bp2, unk, rb) == fill(bp2, unk, Div(rb, Len(unk)))

\* Mutant of finalize: Step 8 is left out, the interior cells keep what they
\* held before the call.
finalizeNoInterior(bp2, where, intr, results, ipoly, cp, rb, tw) ==
    clamp(fillFrontier(bp2, where, results, ipoly, rb, tw))

\* Steps 7 and 8 and the clamp.
finalize(bp2, where, intr, results, ipoly, cp, rb, tw) ==
    LET numInterior == Len(intr)
        bp3 == fillFrontier(bp2, where, results, ipoly, rb, tw)
        bp4 == IF numInterior > 0
               THEN fill(bp3, intr, Div(interiorNumerator(cp, numInterior, rb), tw))
               ELSE bp3
    IN clamp(bp4)

\* The part of solve() after the trivial cases, from the component results.
combine(g, bp1, fr, intr, results) ==
    LET unk == unknownCells(g)
        rb == remainingBad(g)
        where == frontierPlaces(fr, results)
        bp2 == fillLarge(bp1, where, results, Div(rb, Len(unk)))
        ipoly == interiorPoly(Len(intr))
        cp == compProd(results)
        tw == totalWays(cp, ipoly, rb)
    IN IF tw <= 0
       THEN contradiction(bp2, unk, rb)
       ELSE finalize(bp2, where, intr, results, ipoly, cp, rb, tw)

\* None of the three trivial cases returns: solve() goes on to Step 2.
pastTrivialCases(g) ==
    /\ Len(unknownCells(g)) # 0
    /\ ~(remainingBad(g) <= 0)
    /\ Len(constraintCells(g)) # 0

\* The value of totalWays that solve() computes in Step 6 on grid g.
totalWaysOf(g) ==
    totalWays(compProd(compResults(g)), interiorPoly(Len(interior(g))), remainingBad(g))

solve(g, bp) ==
    LET bp1 == Classify(g, bp)
        unk == unknownCells(g)
        rb == remainingBad(g)
    IN IF Len(unk) = 0 THEN bp1
       ELSE IF rb <= 0 THEN allFound(bp1, unk)
       ELSE IF Len(constraintCells(g)) = 0 THEN noClues(bp1, unk, rb)
       ELSE combine(g, bp1, frontier(g), interior(g), compResults(g))

\* solve() from the component results pushed by the component loop.
solveFrom(g, bp, res) ==
    LET bp1 == Classify(g, bp)
        unk == unknownCells(g)
        rb == remainingBad(g)
    IN IF Len(unk) = 0 THEN bp1
       ELSE IF rb <= 0 THEN allFound(bp1, unk)
       ELSE IF Len(constraintCells(g)) = 0 THEN noClues(bp1, unk, rb)
       ELSE combine(g, bp1, frontier(g), interior(g), res)

(***************************************************************************)
(* The solver object as a state machine                                    *)
(***************************************************************************)
VARIABLES
    grid,      \* std::array<CellContent, TOTAL_CELLS> grid
    badProb,   \* std::array<double, TOTAL_CELLS> badProb
    lastOp,    \* history: the member function called last
    nSet,      \* history: setCell calls made so far
    solveRun,  \* history: solve calls since the last reset or setCell
    nbrIn,     \* a direct call of the static getNeighbors: <<rows, cols, idx>>
    nbrOut,    \* its return value as <<nbrs>>; <<>> while there is none
    pc,        \* position of a solve() call that is followed step by step
    compIdx,   \* for (auto& kv : components): the components done so far
    cur,       \* the locals of the component being enumerated
    stack,     \* the activation records of enumerateComponent, outermost first
    assignment,\* std::vector<int> assignment
    acc,       \* the output arrays counts and badCnts
    results,   \* std::vector<ComponentResult> compResults
    appPc,     \* position of the application's thread (main.cpp)
    labels,    \* the text of g_probLabels: <<pct>> for "pct% Bad", <<>> for ""
    mapOrder,  \* the order in which the components map was iterated (its keys)
    sortOrder  \* the order std::sort left the cells of each component in

vars == <<grid, badProb, lastOp, nSet, solveRun, nbrIn, nbrOut,
          pc, compIdx, cur, stack, assignment, acc, results,
          appPc, labels, mapOrder, sortOrder>>

\* The variables of a solve() call followed step by step.
stepVars == <<pc, compIdx, cur, stack, assignment, acc, results>>

\* No solve() call is being followed step by step.
NoSteps ==
    /\ pc = "none"
    /\ compIdx = 0
    /\ cur = <<>>
    /\ stack = <<>>
    /\ assignment = <<>>
    /\ acc = <<>>
    /\ results = <<>>

\* The variables of the direct getNeighbors call; the solver's member
\* functions do not touch them.
nbrVars == <<nbrIn, nbrOut>>

\* The variables of the application around the solver; the solver's member
\* functions do not touch them.
appVars == <<appPc, labels>>

\* No application is running: the solver is used on its own.
NoApp ==
    /\ appPc = "none"
    /\ labels = <<>>

\* The choices the standard library made in a solve() call.
libVars == <<mapOrder, sortOrder>>

\* No choice of the library is recorded.
NoLib ==
    /\ mapOrder = <<>>
    /\ sortOrder = <<>>

\* Exploration bounds: setCell calls in a session, and solve calls in a row.
MaxSetCalls == 2

MaxSolveRun == 2

\* double prior = static_cast<double>(TOTAL_BAD) / TOTAL_CELLS;
prior == Div(TOTAL_BAD, TOTAL_CELLS)

\* ThrillDiggerSolver() { reset(); }
Init ==
    /\ grid = [i \in Cells |-> Undug]
    /\ badProb = [i \in Cells |-> prior]
    /\ lastOp = "reset"
    /\ nSet = 0
    /\ solveRun = 0
    /\ nbrIn = <<>>
    /\ nbrOut = <<>>
    /\ NoSteps
    /\ NoApp
    /\ NoLib

\* Mutant of Reset: the grid is cleared but badProb is not refilled.
ResetGridOnly ==
    /\ grid' = [i \in Cells |-> Undug]
    /\ lastOp' = "reset"
    /\ solveRun' = 0
    /\ UNCHANGED <<badProb, nSet, nbrVars, appVars, libVars, stepVars>>

Reset ==
    /\ grid' = [i \in Cells |-> Undug]
    /\ badProb' = [i \in Cells |-> prior]
    /\ lastOp' = "reset"
    /\ solveRun' = 0
    /\ UNCHANGED <<nSet, nbrVars, appVars, libVars, stepVars>>

\* Mutant of setCellIndex: column-major in place of row-major.
setCellIndexSwapped(row, col) == col * ROWS + row

setCellIndex(row, col) == row * COLS + col

SetCell(row, col, content) ==
    /\ nSet < MaxSetCalls
    /\ grid' = [grid EXCEPT ![setCellIndex(row, col)] = content]
    /\ lastOp' = "setCell"
    /\ nSet' = nSet + 1
    /\ solveRun' = 0
    /\ UNCHANGED <<badProb, nbrVars, appVars, libVars, stepVars>>

\* Mutant of Solve: a hidden cell found certainly bad is marked as a Bomb in
\* the grid.
SolveMarksBombs ==
    /\ solveRun < MaxSolveRun
    /\ badProb' = solve(grid, badProb)
    /\ grid' = [i \in Cells |-> IF grid[i] = Undug /\ badProb'[i] = One THEN Bomb ELSE grid[i]]
    /\ lastOp' = "solve"
    /\ solveRun' = solveRun + 1
    /\ UNCHANGED <<nSet, nbrVars, appVars, libVars, stepVars>>

Solve ==
    /\ solveRun < MaxSolveRun
    /\ badProb' = solve(grid, badProb)
    /\ lastOp' = "solve"
    /\ solveRun' = solveRun + 1
    /\ UNCHANGED <<grid, nSet, nbrVars, appVars, libVars, stepVars>>

Next ==
    \/ Reset
    \/ \E row \in 0 .. (ROWS - 1), col \in 0 .. (COLS - 1), content \in CellContent :
          SetCell(row, col, content)
    \/ Solve

Spec == Init /\ [][Next]_vars

(***************************************************************************)
(* Late-game sessions.  A board with most cells revealed takes more        *)
(* setCell calls than MaxSetCalls allows from the empty board, so a second *)
(* specification starts from boards that reset() and setCell() calls reach *)
(* without any solve() in between (badProb still holds the prior): the     *)
(* first b cells in row-major order revealed as Bomb, the next c as Green, *)
(* at most MaxLateHidden cells left Undug, and one setCell call left.      *)
(***************************************************************************)
MaxLateHidden == 3

LateBoard(b, c) ==
    [i \in Cells |-> IF i < b THEN Bomb ELSE IF i < b + c THEN Green ELSE Undug]

InitLate ==
    /\ \E b \in 0 .. TOTAL_CELLS :
          \E c \in 0 .. (TOTAL_CELLS - b) :
              /\ TOTAL_CELLS - (b + c) <= MaxLateHidden
              /\ grid = LateBoard(b, c)
    /\ badProb = [i \in Cells |-> prior]
    /\ lastOp = "setCell"
    /\ nSet = MaxSetCalls - 1
    /\ solveRun = 0
    /\ nbrIn = <<>>
    /\ nbrOut = <<>>
    /\ NoSteps
    /\ NoApp
    /\ NoLib

SpecLate == InitLate /\ [][Next]_vars

(***************************************************************************)
(* getNeighbors called on its own.  It is a static function of idx and the *)
(* constexpr dimensions; the call is made for every board from 2 x 2 up to *)
(* the reference 5 x 8 and every cell index of that board.                 *)
(***************************************************************************)
MaxNbrRows == 5

MaxNbrCols == 8

InitNeighbors ==
    /\ grid = [i \in Cells |-> Undug]
    /\ badProb = [i \in Cells |-> prior]
    /\ lastOp = "reset"
    /\ nSet = 0
    /\ solveRun = 0
    /\ \E rows \in 2 .. MaxNbrRows, cols \in 2 .. MaxNbrCols :
          \E idx \in 0 .. (rows * cols - 1) : nbrIn = <<rows, cols, idx>>
    /\ nbrOut = <<>>
    /\ NoSteps
    /\ NoApp
    /\ NoLib

GetNeighbors ==
    /\ nbrOut = <<>>
    /\ nbrOut' = <<getNeighborsAt(nbrIn[1], nbrIn[2], nbrIn[3])>>
    /\ UNCHANGED <<grid, badProb, lastOp, nSet, solveRun, nbrIn, stepVars, appVars, libVars>>

NextNeighbors == GetNeighbors

SpecNeighbors == InitNeighbors /\ [][NextNeighbors]_vars

(***************************************************************************)
(* solve() followed step by step.  One call of solve() on a board that     *)
(* reset() and setCell() calls reach: the steps before and after the       *)
(* component loop are single actions (their loops run over fixed ranges),  *)
(* the recursion of enumerateComponent is unfolded into its activation     *)
(* records.  A record is [pos, numBad, val]: val = -1 on entry, before the *)
(* two early returns are tested, then the value of the loop variable val   *)
(* (2 when the loop is over).                                              *)
(***************************************************************************)
\* The boards the call is made on: the empty board with a cell and the cell
\* opposite to it through the centre set to any content (Undug included), or
\* a late-game board.
EarlyBoard(c1, k1, k2) ==
    [[i \in Cells |-> Undug] EXCEPT ![c1] = k1, ![TOTAL_CELLS - 1 - c1] = k2]

InitSteps ==
    /\ \/ \E c1 \in Cells : \E k1, k2 \in CellContent : grid = EarlyBoard(c1, k1, k2)
       \/ \E b \in 0 .. TOTAL_CELLS :
             \E c \in 0 .. (TOTAL_CELLS - b) :
                 /\ TOTAL_CELLS - (b + c) <= MaxLateHidden
                 /\ grid = LateBoard(b, c)
    /\ badProb = [i \in Cells |-> prior]
    /\ lastOp = "setCell"
    /\ nSet = 0
    /\ solveRun = 0
    /\ nbrIn = <<>>
    /\ nbrOut = <<>>
    /\ pc = "call"
    /\ compIdx = 0
    /\ cur = <<>>
    /\ stack = <<>>
    /\ assignment = <<>>
    /\ acc = <<>>
    /\ results = <<>>
    /\ NoApp
    /\ NoLib

\* return from solve()
Return(bp) ==
    /\ badProb' = bp
    /\ pc' = "returned"
    /\ lastOp' = "solve"
    /\ solveRun' = solveRun + 1

\* Steps 1 to 4, with the three early returns.
StepBegin ==
    /\ pc = "call"
    /\ LET bp1 == Classify(grid, badProb)
           unk == unknownCells(grid)
           rb == remainingBad(grid)
       IN IF Len(unk) = 0 THEN Return(bp1)
          ELSE IF rb <= 0 THEN Return(allFound(bp1, unk))
          ELSE IF Len(constraintCells(grid)) = 0 THEN Return(noClues(bp1, unk, rb))
          ELSE /\ badProb' = bp1
               /\ pc' = "component"
               /\ UNCHANGED <<lastOp, solveRun>>
    /\ UNCHANGED <<grid, nSet, nbrVars, appVars, libVars,
                   compIdx, cur, stack, assignment, acc, results>>

\* The locals of one iteration of the component loop, for the component at
\* (0-based) position k of the components map.
componentLocals(g, k) ==
    LET parent == partition(g)
        root == componentRoots(parent)[k + 1]
        mem == members(parent, root)
        lcs == localConstraints(parent, constraints(g), root, mem)
        cc == cellConstraints(lcs, Len(mem))
        order == cellOrder(cc, Len(mem))
    IN [size |-> Len(mem), mem |-> mem, lcs |-> lcs, cc |-> cc,
        order |-> order, orderPos |-> cellOrderPos(order)]

\* for (auto& kv : components): the loop test and, for the next component,
\* the code up to the call of enumerateComponent (or the whole iteration
\* when the component is too large to enumerate).
StepComponent ==
    /\ pc = "component"
    /\ IF compIdx = Len(componentRoots(partition(grid)))
       THEN /\ pc' = "combine"
            /\ UNCHANGED <<badProb, cur, stack, assignment, acc, results, compIdx>>
       ELSE /\ cur' = componentLocals(grid, compIdx)
            /\ IF cur'.size <= MaxEnumSize
               THEN /\ assignment' = [i \in 1 .. cur'.size |-> 0]
                    /\ acc' = [counts |-> [k \in 1 .. (cur'.size + 1) |-> 0],
                               badCnts |-> [i \in 1 .. cur'.size |->
                                              [k \in 1 .. (cur'.size + 1) |-> 0]]]
                    /\ stack' = <<[pos |-> 0, numBad |-> 0, val |-> -1]>>
                    /\ pc' = "enumerate"
                    /\ UNCHANGED <<badProb, results, compIdx>>
               ELSE /\ badProb' = [i \in Cells |->
                                      IF \E m \in Range(cur'.mem) : frontier(grid)[m + 1] = i
                                      THEN Div(remainingBad(grid), Len(unknownCells(grid)))
                                      ELSE badProb[i]]
                    /\ results' = Append(results, [size |-> cur'.size, counts |-> <<>>,
                                                   badCounts |-> <<>>,
                                                   globalIndices |-> cur'.mem])
                    /\ compIdx' = compIdx + 1
                    /\ UNCHANGED <<pc, stack, assignment, acc>>
    /\ UNCHANGED <<grid, lastOp, nSet, solveRun, nbrVars, appVars, libVars>>

\* return from the innermost call of enumerateComponent
Pop == stack' = SubSeq(stack, 1, Len(stack) - 1)

\* Mutant of EnumEnter: at the base case badCnts is incremented for every
\* cell, bad or safe (the test of assignment[i] is dropped).
EnumEnterCountCells ==
    /\ pc = "enumerate"
    /\ stack # <<>>
    /\ LET top == stack[Len(stack)]
       IN /\ top.val = -1
          /\ IF top.numBad > remainingBad(grid)
             THEN Pop /\ UNCHANGED acc
             ELSE IF top.pos = cur.size
             THEN /\ acc' = [counts |-> [acc.counts EXCEPT ![top.numBad + 1] = @ + 1],
                             badCnts |-> [i \in 1 .. cur.size |->
                                            [acc.badCnts[i] EXCEPT ![top.numBad + 1] = @ + 1]]]
                  /\ Pop
             ELSE /\ stack' = [stack EXCEPT ![Len(stack)].val = 0]
                  /\ UNCHANGED acc
    /\ UNCHANGED <<grid, badProb, lastOp, nSet, solveRun, nbrVars, appVars, libVars,
                   pc, compIdx, cur, assignment, results>>

\* Entry of enumerateComponent: the two early returns.
EnumEnter ==
    /\ pc = "enumerate"
    /\ stack # <<>>
    /\ LET top == stack[Len(stack)]
       IN /\ top.val = -1
          /\ IF top.numBad > remainingBad(grid)
             THEN Pop /\ UNCHANGED acc
             ELSE IF top.pos = cur.size
             THEN /\ acc' = [counts |-> [acc.counts EXCEPT ![top.numBad + 1] = @ + 1],
                             badCnts |-> [i \in 1 .. cur.size |->
                                            IF assignment[i] # 0
                                            THEN [acc.badCnts[i] EXCEPT ![top.numBad + 1] = @ + 1]
                                            ELSE acc.badCnts[i]]]
                  /\ Pop
             ELSE /\ stack' = [stack EXCEPT ![Len(stack)].val = 0]
                  /\ UNCHANGED acc
    /\ UNCHANGED <<grid, badProb, lastOp, nSet, solveRun, nbrVars, appVars, libVars,
                   pc, compIdx, cur, assignment, results>>

\* Mutant of EnumTry: the loop variable is advanced only when the assignment
\* passes the constraint check.
EnumTryNoAdvance ==
    /\ pc = "enumerate"
    /\ stack # <<>>
    /\ LET top == stack[Len(stack)]
           cell == cur.order[top.pos + 1]
           a == [assignment EXCEPT ![cell + 1] = top.val]
       IN /\ top.val \in {0, 1}
          /\ assignment' = a
          /\ IF assignmentValid(top.pos, cell, cur.orderPos, a, cur.cc, cur.lcs)
             THEN stack' = Append([stack EXCEPT ![Len(stack)].val = top.val + 1],
                                  [pos |-> top.pos + 1, numBad |-> top.numBad + top.val,
                                   val |-> -1])
             ELSE stack' = stack
    /\ UNCHANGED <<grid, badProb, lastOp, nSet, solveRun, nbrVars, appVars, libVars,
                   pc, compIdx, cur, acc, results>>

\* One iteration of for (val = 0; val <= 1; val++): the assignment, the
\* constraint check and, if it passes, the recursive call.
EnumTry ==
    /\ pc = "enumerate"
    /\ stack # <<>>
    /\ LET top == stack[Len(stack)]
           cell == cur.order[top.pos + 1]
           a == [assignment EXCEPT ![cell + 1] = top.val]
       IN /\ top.val \in {0, 1}
          /\ assignment' = a
          /\ IF assignmentValid(top.pos, cell, cur.orderPos, a, cur.cc, cur.lcs)
             THEN stack' = Append([stack EXCEPT ![Len(stack)].val = top.val + 1],
                                  [pos |-> top.pos + 1, numBad |-> top.numBad + top.val,
                                   val |-> -1])
             ELSE stack' = [stack EXCEPT ![Len(stack)].val = top.val + 1]
    /\ UNCHANGED <<grid, badProb, lastOp, nSet, solveRun, nbrVars, appVars, libVars,
                   pc, compIdx, cur, acc, results>>

\* The loop is over: assignment[cell] = 0 and return.
EnumLeave ==
    /\ pc = "enumerate"
    /\ stack # <<>>
    /\ LET top == stack[Len(stack)]
       IN /\ top.val = 2
          /\ assignment' = [assignment EXCEPT ![cur.order[top.pos + 1] + 1] = 0]
          /\ Pop
    /\ UNCHANGED <<grid, badProb, lastOp, nSet, solveRun, nbrVars, appVars, libVars,
                   pc, compIdx, cur, acc, results>>

\* The outermost call has returned: the ComponentResult is pushed.
EnumDone ==
    /\ pc = "enumerate"
    /\ stack = <<>>
    /\ results' = Append(results, [size |-> cur.size, counts |-> acc.counts,
                                   badCounts |-> acc.badCnts, globalIndices |-> cur.mem])
    /\ compIdx' = compIdx + 1
    /\ pc' = "component"
    /\ UNCHANGED <<grid, badProb, lastOp, nSet, solveRun, nbrVars, appVars, libVars,
                   cur, stack, assignment, acc>>

\* Steps 6 to 8 and the return.
StepCombine ==
    /\ pc = "combine"
    /\ Return(combine(grid, badProb, frontier(grid), interior(grid), results))
    /\ UNCHANGED <<grid, nSet, nbrVars, appVars, libVars,
                   compIdx, cur, stack, assignment, acc, results>>

NextSteps ==
    \/ StepBegin
    \/ StepComponent
    \/ EnumEnter
    \/ EnumTry
    \/ EnumLeave
    \/ EnumDone
    \/ StepCombine

\* The steps of enumerateComponent.
Enumerate == EnumEnter \/ EnumTry \/ EnumLeave \/ EnumDone

\* The control position of solve() outside enumerateComponent, and the move
\* StepBegin, StepComponent and StepCombine make on it: each of them is a
\* conjunction of assignments under its pc guard, so it can be taken whenever
\* pc is "call", "component" or "combine", and it changes pc or compIdx.
ctl == <<pc, compIdx>>

Advance ==
    /\ pc \in {"call", "component", "combine"}
    /\ pc' \in {"component", "enumerate", "combine", "returned"}
    /\ compIdx' \in {compIdx, compIdx + 1}

\* The call runs on one thread, which keeps executing until it returns:
\* inside enumerateComponent its next step is taken, outside it the call
\* moves on to its next position.
SpecSteps ==
    InitSteps /\ [][NextSteps]_vars /\ WF_vars(Enumerate) /\ WF_ctl(Advance)

\* The call followed step by step returns what solve() as a whole returns.
StepsAgreeWithSolve ==
    pc = "returned" => badProb = solve(grid, [i \in Cells |-> prior])

(***************************************************************************)
(* The application (main.cpp).  One thread runs WinMain: it creates the    *)
(* controls, calls solve() and UpdateUI() once, then loops on GetMessage   *)
(* and dispatches each message to WndProc, which returns before the next   *)
(* message is taken.  appPc is the position of that thread: "WinMain"      *)
(* before the initial calculation, "idle" in GetMessage, "recalc" inside   *)
(* a WM_COMMAND handler after the solver was changed, "solved" after       *)
(* solve() and before UpdateUI().  labels[i] is the text of g_probLabels[i]*)
(* as <<pct>> for "pct% Bad" and <<>> for the empty string.                *)
(***************************************************************************)
\* (int)std::round(badProb * 100.0), for a probability that is not negative
pct(p) == (200 * p[1] + p[2]) \div (2 * p[2])

\* The label texts UpdateUI() sets.
labelTexts(g, bp) == [i \in Cells |-> IF g[i] = Undug THEN <<pct(bp[i])>> ELSE <<>>]

\* WinMain up to the initial calculation: g_solver is constructed, every
\* label is created with the text "40% Bad".
InitApp ==
    /\ grid = [i \in Cells |-> Undug]
    /\ badProb = [i \in Cells |-> prior]
    /\ lastOp = "reset"
    /\ nSet = 0
    /\ solveRun = 0
    /\ nbrIn = <<>>
    /\ nbrOut = <<>>
    /\ NoSteps
    /\ appPc = "WinMain"
    /\ labels = [i \in Cells |-> <<40>>]
    /\ NoLib

\* g_solver.solve(), in WinMain and in RecalcAndUpdate
AppSolve ==
    /\ appPc \in {"WinMain", "recalc"}
    /\ badProb' = solve(grid, badProb)
    /\ lastOp' = "solve"
    /\ solveRun' = solveRun + 1
    /\ appPc' = "solved"
    /\ UNCHANGED <<grid, nSet, labels, nbrVars, stepVars, libVars>>

\* UpdateUI(hWnd), then back to the message loop
AppUpdateUI ==
    /\ appPc = "solved"
    /\ labels' = labelTexts(grid, badProb)
    /\ appPc' = "idle"
    /\ UNCHANGED <<grid, badProb, lastOp, nSet, solveRun, nbrVars, stepVars, libVars>>

\* Mutant of AppComboChange: the handler returns without RecalcAndUpdate.
AppComboChangeNoRecalc(cellIdx, sel) ==
    /\ appPc = "idle"
    /\ nSet < MaxSetCalls
    /\ grid' = [grid EXCEPT ![setCellIndex(cellIdx \div COLS, cellIdx % COLS)] = sel]
    /\ lastOp' = "setCell"
    /\ nSet' = nSet + 1
    /\ solveRun' = 0
    /\ UNCHANGED <<badProb, appPc, labels, nbrVars, stepVars, libVars>>

\* WM_COMMAND with CBN_SELCHANGE from the dropdown of cell cellIdx, whose
\* selection is sel: g_solver.setCell(cellIdx / COLS, cellIdx % COLS, sel),
\* up to the call of RecalcAndUpdate.
AppComboChange(cellIdx, sel) ==
    /\ appPc = "idle"
    /\ nSet < MaxSetCalls
    /\ grid' = [grid EXCEPT ![setCellIndex(cellIdx \div COLS, cellIdx % COLS)] = sel]
    /\ lastOp' = "setCell"
    /\ nSet' = nSet + 1
    /\ solveRun' = 0
    /\ appPc' = "recalc"
    /\ UNCHANGED <<badProb, labels, nbrVars, stepVars, libVars>>

\* WM_COMMAND with BN_CLICKED from the Reset button: g_solver.reset(), up to
\* the call of RecalcAndUpdate.
AppResetClick ==
    /\ appPc = "idle"
    /\ grid' = [i \in Cells |-> Undug]
    /\ badProb' = [i \in Cells |-> prior]
    /\ lastOp' = "reset"
    /\ solveRun' = 0
    /\ appPc' = "recalc"
    /\ UNCHANGED <<nSet, labels, nbrVars, stepVars, libVars>>

NextApp ==
    \/ AppSolve
    \/ AppUpdateUI
    \/ \E cellIdx \in Cells, sel \in CellContent : AppComboChange(cellIdx, sel)
    \/ AppResetClick

\* The move AppSolve and AppUpdateUI make on appPc: each is a conjunction of
\* assignments under its appPc guard.
AppAdvance ==
    /\ appPc \in {"WinMain", "recalc", "solved"}
    /\ appPc' \in {"solved", "idle"}

\* The thread keeps running until it waits in GetMessage; no event has to
\* arrive.
SpecApp == InitApp /\ [][NextApp]_vars /\ WF_appPc(AppAdvance)

(***************************************************************************)
(* solve() under every choice the standard library may make.  The          *)
(* iteration order of std::unordered_map is unspecified, and std::sort     *)
(* leaves cells with equal keys in any order; the call is made on the      *)
(* boards of InitSteps with the components taken in any order and the      *)
(* cells of a component in any order at all (sorted by the key or not).    *)
(* For a component of more than MaxPermSize cells the orders are the       *)
(* rotations of the sorted order and of its reverse.                       *)
(***************************************************************************)
MaxPermSize == 5

\* The sequences that hold every element of S once.
RECURSIVE PermSeqs(_)
PermSeqs(S) ==
    IF S = {} THEN {<<>>}
    ELSE UNION {{<<x>> \o q : q \in PermSeqs(S \ {x})} : x \in S}

\* The sequences that take their k-th element from the set ss[k].
RECURSIVE Tuples(_)
Tuples(ss) ==
    IF Len(ss) = 0 THEN {<<>>}
    ELSE {<<x>> \o t : x \in Head(ss), t \in Tuples(Tail(ss))}

Reverse(q) == [i \in 1 .. Len(q) |-> q[Len(q) + 1 - i]]

Rotations(q) == {[i \in 1 .. Len(q) |-> q[((i - 1 + r) % Len(q)) + 1]] : r \in 0 .. (Len(q) - 1)}

\* The cell orders tried for the component of root.
cellOrders(g, root) ==
    LET parent == partition(g)
        mem == members(parent, root)
        compSize == Len(mem)
        sorted == cellOrder(cellConstraints(localConstraints(parent, constraints(g), root, mem),
                                            compSize), compSize)
    IN IF compSize <= MaxPermSize
       THEN PermSeqs(0 .. (compSize - 1))
       ELSE Rotations(sorted) \cup Rotations(Reverse(sorted))

InitOrder ==
    /\ \/ \E c1 \in Cells : \E k1, k2 \in CellContent : grid = EarlyBoard(c1, k1, k2)
       \/ \E b \in 0 .. TOTAL_CELLS :
             \E c \in 0 .. (TOTAL_CELLS - b) :
                 /\ TOTAL_CELLS - (b + c) <= MaxLateHidden
                 /\ grid = LateBoard(b, c)
    /\ badProb = [i \in Cells |-> prior]
    /\ lastOp = "setCell"
    /\ nSet = 0
    /\ solveRun = 0
    /\ nbrIn = <<>>
    /\ nbrOut = <<>>
    /\ NoSteps
    /\ NoApp
    /\ NoLib

\* solve(), with the components map iterated in the order roots and the
\* cells of the k-th component taken in the order orders[k].
SolveInOrder ==
    /\ lastOp # "solve"
    /\ \E roots \in PermSeqs(Range(componentRoots(partition(grid)))) :
          \E orders \in Tuples([k \in 1 .. Len(roots) |-> cellOrders(grid, roots[k])]) :
              /\ results' = compResultsIn(grid, roots, orders)
              /\ badProb' = solveFrom(grid, badProb, results')
              /\ mapOrder' = roots
              /\ sortOrder' = orders
    /\ lastOp' = "solve"
    /\ solveRun' = solveRun + 1
    /\ UNCHANGED <<grid, nSet, nbrVars, appVars, pc, compIdx, cur, stack, assignment, acc>>

NextOrder == SolveInOrder

SpecOrder == InitOrder /\ [][NextOrder]_vars

(***************************************************************************)
(* The posterior the solver is meant to compute, by brute force over the   *)
(* whole board.  Nothing below reads the solver's intermediate values.     *)
(***************************************************************************)
Row(i) == i \div COLS

Col(i) == i % COLS

Abs(x) == IF x < 0 THEN -x ELSE x

\* Moore neighbourhood
Adjacent(i, j) == i # j /\ Abs(Row(i) - Row(j)) <= 1 /\ Abs(Col(i) - Col(j)) <= 1

Hidden(g) == {i \in Cells : g[i] = Undug}

RevealedBad(g) == {i \in Cells : g[i] \in {Rupoor, Bomb}}

Clues(g) == {i \in Cells : g[i] \in {Green, Blue, Red, Silver, Gold}}

RemainingBad(g) == TOTAL_BAD - Cardinality(RevealedBad(g))

\* The subsets of S with exactly k elements.
RECURSIVE KSubsets(_, _)
KSubsets(S, k) ==
    IF k < 0 \/ k > Cardinality(S) THEN {}
    ELSE IF k = 0 THEN {{}}
    ELSE LET x == CHOOSE y \in S : TRUE
         IN KSubsets(S \ {x}, k) \cup {T \cup {x} : T \in KSubsets(S \ {x}, k - 1)}

\* A set B of hidden cells taken to be the bad ones respects clue cell c.
RespectsClue(g, B, c) ==
    LET n == Cardinality({j \in Cells : Adjacent(c, j) /\ (j \in RevealedBad(g) \/ j \in B)})
        range == badNeighborRange(g[c])
    IN range[1] <= n /\ n <= range[2]

\* The valid assignments: exactly RemainingBad(g) hidden cells bad, every
\* clue respected.
ValidAssignments(g) ==
    {B \in KSubsets(Hidden(g), RemainingBad(g)) : \A c \in Clues(g) : RespectsClue(g, B, c)}

\* The probability p (a pair <<num, den>>) is the fraction n / d.
IsFraction(p, n, d) == p[2] > 0 /\ d > 0 /\ p[1] * d = n * p[2]

RECURSIVE SumProb(_, _)
SumProb(bp, S) ==
    IF S = {} THEN Zero
    ELSE LET x == CHOOSE y \in S : TRUE IN RatAdd(bp[x], SumProb(bp, S \ {x}))

Solved == solveRun > 0

(***************************************************************************)
(* C1: in every board state that has at least one valid assignment, after  *)
(* solve() the badProb of every hidden cell is the number of valid         *)
(* assignments in which the cell is bad over the number of valid           *)
(* assignments.                                                            *)
(***************************************************************************)
C1_ExactPosterior ==
    Solved =>
        LET va == ValidAssignments(grid)
        IN va # {} =>
              \A i \in Hidden(grid) :
                  IsFraction(badProb[i], Cardinality({B \in va : i \in B}), Cardinality(va))

\* solve() has run on a consistent board with two components and interior
\* cells, and left a probability strictly between 0 and 1.
C1_Witness ==
    /\ Solved
    /\ ValidAssignments(grid) # {}
    /\ Len(compResults(grid)) >= 2
    /\ Len(interior(grid)) > 0
    /\ \E i \in Hidden(grid) : RatLess(Zero, badProb[i]) /\ RatLess(badProb[i], One)

(***************************************************************************)
(* C2: after solve() returns, every entry of badProb lies in [0,1].        *)
(***************************************************************************)
C2_ProbInUnitInterval ==
    Solved => \A i \in Cells : RatLeq(Zero, badProb[i]) /\ RatLeq(badProb[i], One)

(***************************************************************************)
(* C3: in a state with no valid assignment, solve() gives every hidden     *)
(* cell the uniform fallback remainingBad / |hidden cells|.                *)
(***************************************************************************)
C3_ContradictionFallback ==
    (Solved /\ ValidAssignments(grid) = {}) =>
        \A i \in Hidden(grid) :
            IsFraction(badProb[i], RemainingBad(grid), Cardinality(Hidden(grid)))

(***************************************************************************)
(* C4: after solve() in a state that has a valid assignment, the badProb   *)
(* of the hidden cells sum to remainingBad.                                *)
(***************************************************************************)
C4_Conservation ==
    (Solved /\ ValidAssignments(grid) # {}) =>
        IsFraction(SumProb(badProb, Hidden(grid)), RemainingBad(grid), 1)

\* solve() has run on a consistent board with clues, where the hidden
\* probabilities are not all equal.
C4_Witness ==
    /\ Solved
    /\ ValidAssignments(grid) # {}
    /\ Clues(grid) # {}
    /\ \E i, j \in Hidden(grid) : badProb[i] # badProb[j]

(***************************************************************************)
(* C5: after solve() returns, every Rupoor or Bomb cell has badProb        *)
(* exactly 1.0 and every clue cell has badProb exactly 0.0.                *)
(***************************************************************************)
C5_RevealedExact ==
    Solved =>
        /\ \A i \in RevealedBad(grid) : badProb[i] = <<1, 1>>
        /\ \A i \in Clues(grid) : badProb[i] = <<0, 1>>

\* solve() has run on a board showing both a bad cell and a clue.
C5_Witness == Solved /\ RevealedBad(grid) # {} /\ Clues(grid) # {}

(***************************************************************************)
(* C6: a solve() that directly follows a solve() leaves badProb as the     *)
(* first one left it.                                                      *)
(***************************************************************************)
C6_Idempotent == [][solveRun' >= 2 => badProb' = badProb]_vars

\* Two solve() calls in a row on a consistent board with clues and interior.
C6_Witness ==
    /\ solveRun >= 2
    /\ Clues(grid) # {}
    /\ ValidAssignments(grid) # {}
    /\ Len(interior(grid)) > 0

(***************************************************************************)
(* C7: after reset(), every cell is Undug and every badProb equals         *)
(* TOTAL_BAD / TOTAL_CELLS.                                                *)
(***************************************************************************)
C7_ResetPrior ==
    [][lastOp' = "reset" =>
          \A i \in Cells :
              /\ grid'[i] = Undug
              /\ IsFraction(badProb'[i], TOTAL_BAD, TOTAL_CELLS)]_vars

\* reset() has just run; before the session two cells had been set.
C7_Witness == lastOp = "reset" /\ nSet >= 2

(***************************************************************************)
(* C8: setCell(row, col, content) with in-bounds row and col changes only  *)
(* grid[row * COLS + col]: every other cell and all of badProb are left    *)
(* unchanged.                                                              *)
(***************************************************************************)
C8_SetCellFrame ==
    [][\A row \in 0 .. (ROWS - 1), col \in 0 .. (COLS - 1), content \in CellContent :
          SetCell(row, col, content) =>
              /\ badProb' = badProb
              /\ grid'[row * COLS + col] = content
              /\ \A i \in Cells \ {row * COLS + col} : grid'[i] = grid[i]]_vars

\* setCell has just run after a solve(): badProb is stale with respect to the
\* grid (a further solve() would change it).
C8_Witness ==
    /\ lastOp = "setCell"
    /\ \E i \in Cells : badProb[i] # prior
    /\ solve(grid, badProb) # badProb

(***************************************************************************)
(* C9: whenever exactly TOTAL_BAD cells are revealed as bad, solve() sets  *)
(* the probability of every hidden cell to exactly 0.0.                    *)
(***************************************************************************)
C9_AllBadFound ==
    (Solved /\ Cardinality(RevealedBad(grid)) = TOTAL_BAD) =>
        \A i \in Hidden(grid) : badProb[i] = <<0, 1>>

\* solve() has run with all bad cells revealed, a clue revealed and cells
\* still hidden.
C9_Witness ==
    /\ Solved
    /\ Cardinality(RevealedBad(grid)) = TOTAL_BAD
    /\ Clues(grid) # {}
    /\ Hidden(grid) # {}

(***************************************************************************)
(* C10: with a single Green clue on an otherwise hidden board, solve()     *)
(* gives the clue's neighbours 0.0 and every other hidden cell             *)
(* TOTAL_BAD / (number of those cells), so the hidden probabilities sum to *)
(* TOTAL_BAD; with the clue at (0,0) the zero cells are (0,1), (1,0) and   *)
(* (1,1).  (The board must have room for TOTAL_BAD bad cells away from the *)
(* clue, as the reference board has: 16 <= 31.)                            *)
(***************************************************************************)
SingleGreen(g, c) == g[c] = Green /\ \A i \in Cells \ {c} : g[i] = Undug

FarCells(c) == {i \in Cells : i # c /\ ~Adjacent(c, i)}

C10_SingleGreen ==
    Solved =>
        \A c \in Cells :
            (SingleGreen(grid, c) /\ TOTAL_BAD <= Cardinality(FarCells(c))) =>
                /\ \A i \in Cells : Adjacent(c, i) => badProb[i] = <<0, 1>>
                /\ \A i \in FarCells(c) :
                      IsFraction(badProb[i], TOTAL_BAD, Cardinality(FarCells(c)))
                /\ IsFraction(SumProb(badProb, Hidden(grid)), TOTAL_BAD, 1)
                /\ c = 0 =>
                      /\ badProb[0 * COLS + 1] = <<0, 1>>
                      /\ badProb[1 * COLS + 0] = <<0, 1>>
                      /\ badProb[1 * COLS + 1] = <<0, 1>>
                      /\ Cardinality(FarCells(c)) = TOTAL_CELLS - 4

\* solve() has run on the board whose only revealed cell is a Green at (0,0).
C10_Witness == Solved /\ SingleGreen(grid, 0) /\ TOTAL_BAD <= Cardinality(FarCells(0))

(***************************************************************************)
(* C11: for every cell index of the grid, getNeighbors returns exactly the *)
(* in-bounds cells at row offset and column offset in {-1,0,1} other than  *)
(* the cell itself, without duplicates: 3 cells for a corner, 5 for a      *)
(* non-corner edge cell, 8 for an interior cell.                           *)
(***************************************************************************)
C11_Neighbors ==
    nbrOut # <<>> =>
        LET rows == nbrIn[1]
            cols == nbrIn[2]
            idx == nbrIn[3]
            nbrs == nbrOut[1]
            r == idx \div cols
            c == idx % cols
            expected == {nr * cols + nc : <<nr, nc>> \in
                            {<<r + dr, c + dc>> : <<dr, dc>> \in
                                ({-1, 0, 1} \X {-1, 0, 1}) \ {<<0, 0>>}}
                            \cap ((0 .. (rows - 1)) \X (0 .. (cols - 1)))}
            onRowEdge == r = 0 \/ r = rows - 1
            onColEdge == c = 0 \/ c = cols - 1
        IN /\ Range(nbrs) = expected
           /\ Len(nbrs) = Cardinality(Range(nbrs))
           /\ idx \notin Range(nbrs)
           /\ (onRowEdge /\ onColEdge) => Len(nbrs) = 3
           /\ (onRowEdge # onColEdge) => Len(nbrs) = 5
           /\ (~onRowEdge /\ ~onColEdge) => Len(nbrs) = 8

\* getNeighbors has returned the 8 neighbours of an interior cell of the
\* reference 5 x 8 board.
C11_Witness ==
    /\ nbrOut # <<>>
    /\ nbrIn[1] = 5 /\ nbrIn[2] = 8
    /\ nbrIn[3] \div 8 \in 1 .. 3 /\ nbrIn[3] % 8 \in 1 .. 6
    /\ Len(nbrOut[1]) = 8

(***************************************************************************)
(* C12: the badProb array left by solve() is a function of the current     *)
(* grid alone: whatever sequence of reset(), setCell() and solve() calls   *)
(* led to the grid, and whatever badProb held before the call (the prior   *)
(* written by reset() or the 0.0 and 1.0 of an earlier solve()), the       *)
(* result is the same; nothing written earlier survives in any cell.       *)
(***************************************************************************)
StaleArrays == {[i \in Cells |-> v] : v \in {prior, Zero, One}}

C12_GridAlone == Solved => \A bp \in StaleArrays : badProb = solve(grid, bp)

\* solve() has run on a board that is all Undug again after the session's
\* setCell calls (a cell revealed and set back), and on no fresh solver.
C12_Witness ==
    /\ Solved
    /\ nSet = MaxSetCalls
    /\ \A i \in Cells : grid[i] = Undug /\ badProb[i] = prior

(***************************************************************************)
(* C13: solve() never modifies the grid, on any return path; only reset()  *)
(* and setCell() change cell contents.                                     *)
(***************************************************************************)
C13_SolveKeepsGrid ==
    [][/\ lastOp' = "solve" => grid' = grid
       /\ grid' # grid => lastOp' \in {"reset", "setCell"}]_vars

\* solve() has run and found a hidden cell certainly bad; the cell is still
\* Undug in the grid.
C13_Witness ==
    /\ lastOp = "solve"
    /\ \E i \in Cells : grid[i] = Undug /\ badProb[i] = <<1, 1>>

(***************************************************************************)
(* C14: the two bad kinds are interchangeable: replacing the content of    *)
(* any revealed Rupoor cell by Bomb, or of any Bomb cell by Rupoor, and    *)
(* running solve() again yields exactly the same badProb array.            *)
(***************************************************************************)
SwapBadKind(g, i) == [g EXCEPT ![i] = IF g[i] = Rupoor THEN Bomb ELSE Rupoor]

C14_BadKindsInterchangeable ==
    Solved =>
        \A i \in Cells :
            grid[i] \in {Rupoor, Bomb} => solve(SwapBadKind(grid, i), badProb) = badProb

\* solve() has run on a board showing a Rupoor next to a clue, with hidden
\* cells that are neither certainly bad nor certainly safe.
C14_Witness ==
    /\ Solved
    /\ \E i, c \in Cells : grid[i] = Rupoor /\ c \in Clues(grid) /\ Adjacent(i, c)
    /\ \E j \in Hidden(grid) : RatLess(Zero, badProb[j]) /\ RatLess(badProb[j], One)

(***************************************************************************)
(* C15: with at least one hidden cell, remainingBad > 0 and no clue cell   *)
(* revealed (only Undug, Rupoor and Bomb cells), solve() sets every hidden *)
(* cell to remainingBad / |hidden cells|; solve() on the board reset()     *)
(* leaves sets every cell to TOTAL_BAD / TOTAL_CELLS.                      *)
(***************************************************************************)
C15_NoClueUniform ==
    (Solved /\ Hidden(grid) # {} /\ RemainingBad(grid) > 0 /\ Clues(grid) = {}) =>
        /\ \A i \in Hidden(grid) :
              IsFraction(badProb[i], RemainingBad(grid), Cardinality(Hidden(grid)))
        /\ Hidden(grid) = Cells =>
              \A i \in Cells : IsFraction(badProb[i], TOTAL_BAD, TOTAL_CELLS)

\* solve() has run on a board with revealed bad cells, no clue and bad
\* cells still to find.
C15_Witness ==
    /\ Solved
    /\ Clues(grid) = {}
    /\ RevealedBad(grid) # {}
    /\ RemainingBad(grid) > 0
    /\ Hidden(grid) # {}

(***************************************************************************)
(* C16: solve() terminates and returns normally on every board reached by  *)
(* reset() and in-bounds setCell() calls, contradictory boards, boards     *)
(* with every cell revealed and boards with more than TOTAL_BAD revealed   *)
(* bad cells included; the backtracking enumeration always finishes, its   *)
(* recursion depth bounded by the component size (compSize + 1 activation  *)
(* records, the last one returning at once).                               *)
(***************************************************************************)
C16_Terminates ==
    /\ [](pc = "enumerate" => Len(stack) <= cur.size + 1)
    /\ <>(pc = "returned")

\* The call has returned after enumerating two components.
C16_Witness ==
    /\ pc = "returned"
    /\ Len(results) >= 2
    /\ \E k \in 1 .. Len(results) : SumSeq(results[k].counts) > 1

C17_MoreBadThanHidden ==
    /\ Solved
    /\ pastTrivialCases(grid)
    /\ RemainingBad(grid) > Cardinality(Hidden(grid))

(***************************************************************************)
(* C18: when more than TOTAL_BAD cells are revealed as bad (remainingBad   *)
(* < 0), solve() treats the state as a contradiction: the hidden cells     *)
(* receive the fallback remainingBad / |hidden cells|, not the 0.0 used    *)
(* when remainingBad is exactly 0.                                         *)
(***************************************************************************)
C18_NegativeIsContradiction ==
    (Solved /\ RemainingBad(grid) < 0 /\ Hidden(grid) # {}) =>
        \A i \in Hidden(grid) :
            /\ IsFraction(badProb[i], RemainingBad(grid), Cardinality(Hidden(grid)))
            /\ badProb[i] # <<0, 1>>

(***************************************************************************)
(* C19: for every revealed clue cell with rank range [min, max],           *)
(* knownBadN revealed-bad neighbours and n hidden neighbours: if n = 0 no  *)
(* constraint is emitted; otherwise exactly one constraint is emitted,     *)
(* over exactly its n hidden neighbours, with                              *)
(* minBad = min(max(0, min - knownBadN), n) and                            *)
(* maxBad = min(max(0, max - knownBadN), n).  Revealed neighbours, clue or *)
(* bad, are never members of a constraint.                                 *)
(***************************************************************************)
HiddenNeighbours(g, c) == {j \in Hidden(g) : Adjacent(c, j)}

KnownBadNeighbours(g, c) == {j \in RevealedBad(g) : Adjacent(c, j)}

\* The clue cells that have a hidden neighbour, in ascending order.
CluesWithHidden(g) ==
    SelectSeq(CellSeq, LAMBDA c : c \in Clues(g) /\ HiddenNeighbours(g, c) # {})

\* The grid cells behind the frontier indices idx (fr is the frontier vector).
CellsAt(fr, idx) == {fr[idx[m] + 1] : m \in 1 .. Len(idx)}

\* The grid cells of a constraint of Step 3.
ConstraintCells(g, con) == CellsAt(frontier(g), con.frontierLocalIdx)

C19_ConstraintConstruction ==
    (Solved /\ pastTrivialCases(grid)) =>
        LET cons == constraints(grid)
            clues == CluesWithHidden(grid)
        IN /\ Len(cons) = Len(clues)
           /\ \A k \in 1 .. Len(cons) :
                 LET c == clues[k]
                     n == Cardinality(HiddenNeighbours(grid, c))
                     kb == Cardinality(KnownBadNeighbours(grid, c))
                     range == badNeighborRange(grid[c])
                 IN /\ ConstraintCells(grid, cons[k]) = HiddenNeighbours(grid, c)
                    /\ Len(cons[k].frontierLocalIdx) = n
                    /\ cons[k].minBad = Min(Max(0, range[1] - kb), n)
                    /\ cons[k].maxBad = Min(Max(0, range[2] - kb), n)
                    /\ \A j \in ConstraintCells(grid, cons[k]) : ~isRevealed(grid[j])

\* solve() has built constraints on a board where one clue has no hidden
\* neighbour, and another has hidden neighbours, a revealed bad neighbour
\* and a range that the clamp to n cuts.
C19_Witness ==
    /\ Solved
    /\ pastTrivialCases(grid)
    /\ \E c \in Clues(grid) : HiddenNeighbours(grid, c) = {}
    /\ \E c \in Clues(grid) :
          /\ HiddenNeighbours(grid, c) # {}
          /\ KnownBadNeighbours(grid, c) # {}
          /\ badNeighborRange(grid[c])[1] - Cardinality(KnownBadNeighbours(grid, c))
                 > Cardinality(HiddenNeighbours(grid, c))

(***************************************************************************)
(* C20: the components built by solve() partition the frontier: every      *)
(* hidden cell adjacent to at least one clue belongs to exactly one        *)
(* component, no interior cell belongs to any, two frontier cells are in   *)
(* the same component exactly when a chain of constraints sharing cells    *)
(* links them, and every constraint has all of its cells in a single       *)
(* component, so that each component's local constraints are complete      *)
(* copies of the global ones.                                              *)
(***************************************************************************)
FrontierCells(g) == {j \in Hidden(g) : \E c \in Clues(g) : Adjacent(c, j)}

\* The cells of F that a chain of clues of C (each sharing a hidden neighbour
\* with the next) links to a cell of S.
RECURSIVE ChainClosure(_, _, _)
ChainClosure(F, C, S) ==
    LET T == S \cup {j \in F : \E i \in S, c \in C : Adjacent(c, i) /\ Adjacent(c, j)}
    IN IF T = S THEN S ELSE ChainClosure(F, C, T)

NumComponents(g) == Len(componentRoots(partition(g)))

\* The grid cells of the component with locals loc, and of its local
\* constraint lc.
ComponentCells(fr, loc) == CellsAt(fr, loc.mem)

LocalConstraintCells(fr, loc, lc) ==
    {fr[loc.mem[lc.localIdx[m] + 1] + 1] : m \in 1 .. Len(lc.localIdx)}

C20_ComponentsPartitionFrontier ==
    (Solved /\ pastTrivialCases(grid)) =>
        LET K == 1 .. NumComponents(grid)
            fr == frontier(grid)
            F == FrontierCells(grid)
            cons == constraints(grid)
            conCells == Vec([n \in 1 .. Len(cons) |-> CellsAt(fr, cons[n].frontierLocalIdx)])
            locs == Vec([k \in K |-> componentLocals(grid, k - 1)])
            cells == Vec([k \in K |-> ComponentCells(fr, locs[k])])
        IN /\ \A j \in F : Cardinality({k \in K : j \in cells[k]}) = 1
           /\ \A k \in K :
                 /\ cells[k] \subseteq F
                 /\ Cardinality(cells[k]) = Len(locs[k].mem)
                 /\ \A j \in cells[k] : cells[k] = ChainClosure(F, Clues(grid), {j})
           /\ \A n \in 1 .. Len(cons) : \E k \in K : conCells[n] \subseteq cells[k]
           /\ \A k \in K :
                 LET lcs == locs[k].lcs
                     own == SelectSeq(Vec([n \in 1 .. Len(cons) |-> n]),
                                      LAMBDA n : conCells[n] \subseteq cells[k])
                 IN /\ Len(lcs) = Len(own)
                    /\ \A n \in 1 .. Len(lcs) :
                          /\ LocalConstraintCells(fr, locs[k], lcs[n]) = conCells[own[n]]
                          /\ Len(lcs[n].localIdx) = Len(cons[own[n]].frontierLocalIdx)
                          /\ lcs[n].minBad = cons[own[n]].minBad
                          /\ lcs[n].maxBad = cons[own[n]].maxBad

\* solve() has partitioned a frontier into two components, with interior
\* cells left outside.
C20_Witness ==
    /\ Solved
    /\ pastTrivialCases(grid)
    /\ NumComponents(grid) >= 2
    /\ Hidden(grid) \ FrontierCells(grid) # {}

\* solve() has built a component out of two constraints that share a cell,
\* neither holding all the cells of the other.
C20_ChainedComponent ==
    /\ Solved
    /\ pastTrivialCases(grid)
    /\ \E c1, c2 \in Clues(grid) :
          /\ HiddenNeighbours(grid, c1) \cap HiddenNeighbours(grid, c2) # {}
          /\ HiddenNeighbours(grid, c1) \ HiddenNeighbours(grid, c2) # {}
          /\ HiddenNeighbours(grid, c2) \ HiddenNeighbours(grid, c1) # {}

(***************************************************************************)
(* The assignments of one component, by brute force over all 2^s subsets   *)
(* of its cells.  loc holds the locals of the component (its size and its  *)
(* local constraints); a set B of local cell indices is the set of cells   *)
(* taken to be bad.                                                        *)
(***************************************************************************)
\* The number of cells of local constraint lc that B makes bad.
BadIn(B, lc) == Cardinality({m \in 1 .. Len(lc.localIdx) : lc.localIdx[m] \in B})

SatisfiesLocal(B, lcs) ==
    \A n \in 1 .. Len(lcs) : lcs[n].minBad <= BadIn(B, lcs[n]) /\ BadIn(B, lcs[n]) <= lcs[n].maxBad

LocalAssignments(loc) == {B \in SUBSET (0 .. (loc.size - 1)) : SatisfiesLocal(B, loc.lcs)}

\* Component result cr holds, at index k, the number of the assignments of A
\* with k bad cells, and for every cell the number of those that make it bad.
CountsAgree(cr, A, k) ==
    /\ cr.counts[k + 1] = Cardinality({B \in A : Cardinality(B) = k})
    /\ \A cell \in 0 .. (cr.size - 1) :
          /\ cr.badCounts[cell + 1][k + 1] =
                 Cardinality({B \in A : Cardinality(B) = k /\ cell \in B})
          /\ cr.badCounts[cell + 1][k + 1] <= cr.counts[k + 1]

\* Component result cr holds nothing at index k.
CountsZero(cr, k) ==
    /\ cr.counts[k + 1] = 0
    /\ \A cell \in 0 .. (cr.size - 1) : cr.badCounts[cell + 1][k + 1] = 0

(***************************************************************************)
(* C21 as stated: for every component of size s that solve() has           *)
(* enumerated and every k in 0..s, counts[k] is the number of assignments  *)
(* of the component's cells that satisfy all of its constraints and have   *)
(* exactly k bad cells, and badCounts[cell][k] the number of those in      *)
(* which cell is bad (so badCounts[cell][k] <= counts[k]).                 *)
(***************************************************************************)
C21_EnumeratorCounts ==
    \A n \in 1 .. Len(results) :
        LET loc == componentLocals(grid, n - 1)
            A == LocalAssignments(loc)
        IN /\ results[n].size = loc.size
           /\ results[n].globalIndices = loc.mem
           /\ \A k \in 0 .. loc.size : CountsAgree(results[n], A, k)

(***************************************************************************)
(* C21 amended: the same for every k in 0..min(s, remainingBad); for every *)
(* k from remainingBad + 1 to s, counts[k] and badCounts[cell][k] are 0,   *)
(* whatever the number of such assignments (the enumerator returns as soon *)
(* as numBad exceeds remainingBad).                                        *)
(***************************************************************************)
C21_EnumeratorCountsWithinBudget ==
    \A n \in 1 .. Len(results) :
        LET loc == componentLocals(grid, n - 1)
            A == LocalAssignments(loc)
        IN /\ results[n].size = loc.size
           /\ results[n].globalIndices = loc.mem
           /\ \A k \in 0 .. loc.size :
                 IF k <= remainingBad(grid)
                 THEN CountsAgree(results[n], A, k)
                 ELSE CountsZero(results[n], k)

\* solve() has returned after enumerating a component that has assignments
\* within the budget, counted, and assignments with more than remainingBad
\* bad cells, not counted.
C21_Witness ==
    /\ pc = "returned"
    /\ \E n \in 1 .. Len(results) :
          LET A == LocalAssignments(componentLocals(grid, n - 1))
          IN /\ \E B \in A : Cardinality(B) > remainingBad(grid)
             /\ \E k \in 1 .. results[n].size :
                   /\ results[n].counts[k + 1] > 1
                   /\ \E cell \in 0 .. (results[n].size - 1) :
                         /\ results[n].badCounts[cell + 1][k + 1] > 0
                         /\ results[n].badCounts[cell + 1][k + 1] < results[n].counts[k + 1]

(***************************************************************************)
(* C22: pruning is sound and complete with respect to brute force.  For    *)
(* every component and every k <= remainingBad the enumeration yields the  *)
(* counts[k] and badCounts[cell][k] of enumerating all 2^s assignments and *)
(* filtering by the constraints; no partial assignment that has a valid    *)
(* completion with at most remainingBad bad cells is rejected, by the      *)
(* constraint check or by the budget cut; every complete assignment that   *)
(* is counted satisfies every constraint of the component.                 *)
(***************************************************************************)
\* The cells that assignment vector a makes bad.
BadCells(a) == {c \in 0 .. (Len(a) - 1) : a[c + 1] = 1}

\* The valid assignments within the budget that agree with a on the cells
\* decided before position pos of the order.
Completions(a, pos) ==
    {B \in LocalAssignments(cur) :
        /\ Cardinality(B) <= remainingBad(grid)
        /\ \A c \in 0 .. (cur.size - 1) : cur.orderPos[c + 1] < pos => (c \in B <=> a[c + 1] = 1)}

\* The innermost call is at its base case and about to count.
AboutToCount ==
    /\ pc = "enumerate"
    /\ stack # <<>>
    /\ stack[Len(stack)].val = -1
    /\ stack[Len(stack)].pos = cur.size
    /\ stack[Len(stack)].numBad <= remainingBad(grid)

\* This step is the constraint check rejecting the value just assigned.
RejectedByCheck ==
    /\ pc = "enumerate"
    /\ stack # <<>>
    /\ stack[Len(stack)].val \in {0, 1}
    /\ Len(stack') = Len(stack)

\* This step is the budget cut returning.
RejectedByBudget ==
    /\ pc = "enumerate"
    /\ stack # <<>>
    /\ stack[Len(stack)].val = -1
    /\ stack[Len(stack)].numBad > remainingBad(grid)

C22_PruningSoundComplete ==
    /\ [](AboutToCount =>
             /\ SatisfiesLocal(BadCells(assignment), cur.lcs)
             /\ stack[Len(stack)].numBad = Cardinality(BadCells(assignment)))
    /\ [](\A n \in 1 .. Len(results) :
             LET A == LocalAssignments(componentLocals(grid, n - 1))
             IN \A k \in 0 .. Min(results[n].size, remainingBad(grid)) :
                    CountsAgree(results[n], A, k))
    /\ [][/\ RejectedByCheck => Completions(assignment', stack[Len(stack)].pos + 1) = {}
          /\ RejectedByBudget => Completions(assignment, stack[Len(stack)].pos) = {}]_vars

\* The constraint check has just rejected a value, in a component larger
\* than the budget of which some assignments are already counted.
C22_Witness ==
    /\ pc = "enumerate"
    /\ stack # <<>>
    /\ cur.size > remainingBad(grid)
    /\ SumSeq(acc.counts) > 0
    /\ LET top == stack[Len(stack)]
       IN /\ top.val \in {1, 2}
          /\ LET cell == cur.order[top.pos + 1]
             IN /\ assignment[cell + 1] = top.val - 1
                /\ ~assignmentValid(top.pos, cell, cur.orderPos, assignment, cur.cc, cur.lcs)

\* The budget cut is about to return from a call whose partial assignment
\* extends to assignments that satisfy every constraint, all over the budget.
C22_BudgetCut ==
    /\ pc = "enumerate"
    /\ stack # <<>>
    /\ stack[Len(stack)].val = -1
    /\ stack[Len(stack)].numBad > remainingBad(grid)
    /\ \E B \in LocalAssignments(cur) :
          \A c \in 0 .. (cur.size - 1) :
              cur.orderPos[c + 1] < stack[Len(stack)].pos => (c \in B <=> assignment[c + 1] = 1)

(***************************************************************************)
(* C23: on the normal path of solve(), totalWays - the coefficient at      *)
(* index remainingBad of the convolution of all component count vectors    *)
(* with the interior binomial vector - is the number of assignments of     *)
(* bad/safe to all hidden cells, frontier and interior, that satisfy every *)
(* constraint and contain exactly remainingBad bad cells; it is 0 when     *)
(* remainingBad exceeds the number of hidden cells.                        *)
(***************************************************************************)
\* The set B of hidden cells taken to be bad satisfies the constraint of
\* every clue that has a hidden neighbour: the clue's range less its
\* revealed bad neighbours, cut to [0, number of hidden neighbours].
SatisfiesConstraints(g, B) ==
    \A c \in Clues(g) :
        LET hn == HiddenNeighbours(g, c)
            n == Cardinality(hn)
            kb == Cardinality(KnownBadNeighbours(g, c))
            range == badNeighborRange(g[c])
            bad == Cardinality(B \cap hn)
        IN n > 0 => /\ Min(Max(0, range[1] - kb), n) <= bad
                    /\ bad <= Min(Max(0, range[2] - kb), n)

ConstraintAssignments(g) ==
    {B \in KSubsets(Hidden(g), RemainingBad(g)) : SatisfiesConstraints(g, B)}

\* totalWays as Step 6 computes it from the component results pushed.
totalWaysNow == totalWays(compProd(results), interiorPoly(Len(interior(grid))), remainingBad(grid))

C23_TotalWays ==
    (pc = "returned" /\ pastTrivialCases(grid)) =>
        /\ totalWaysNow = Cardinality(ConstraintAssignments(grid))
        /\ RemainingBad(grid) > Cardinality(Hidden(grid)) => totalWaysNow = 0

\* solve() has returned on the normal path with two components and interior
\* cells, several assignments left.
C23_Witness ==
    /\ pc = "returned"
    /\ pastTrivialCases(grid)
    /\ Len(results) >= 2
    /\ Len(interior(grid)) > 0
    /\ totalWaysNow > 1

\* solve() has gone past the trivial cases with more bad cells left than
\* hidden cells.
C23_MoreBadThanHidden ==
    /\ pc = "returned"
    /\ pastTrivialCases(grid)
    /\ RemainingBad(grid) > Cardinality(Hidden(grid))

\* solve() has returned with totalWays positive on a board where a clue's
\* own range is already broken by its revealed neighbours: the assignments
\* counted are those of the constraints, not those of the clues.
C23_CountsBrokenClue ==
    /\ pc = "returned"
    /\ pastTrivialCases(grid)
    /\ totalWaysNow > 0
    /\ ValidAssignments(grid) = {}

(***************************************************************************)
(* C25: every constraint emitted by solve() has a non-empty cell set and   *)
(* satisfies 0 <= minBad <= maxBad <= |cells|, for every clue rank, every  *)
(* number of revealed-bad neighbours and every cell position; so each      *)
(* constraint taken alone is satisfiable, and a clue whose revealed-bad    *)
(* neighbours already exceed its maximum, or whose minimum exceeds its     *)
(* available neighbours, is never by itself reported as a contradiction:   *)
(* when it is the only constraint and some number of bad cells in its      *)
(* range leaves a number the interior cells can take, totalWays is         *)
(* positive.                                                               *)
(***************************************************************************)
\* Constraint con fits the budget on its own: one of the numbers of bad
\* cells it allows leaves the other hidden cells a number they can hold.
FitsBudget(g, con) ==
    \E k \in con.minBad .. con.maxBad :
        /\ 0 <= RemainingBad(g) - k
        /\ RemainingBad(g) - k <= Cardinality(Hidden(g)) - Len(con.frontierLocalIdx)

C25_ConstraintsSatisfiable ==
    (pc = "returned" /\ pastTrivialCases(grid)) =>
        LET cons == constraints(grid)
        IN /\ \A k \in 1 .. Len(cons) :
                 LET n == Cardinality(Range(cons[k].frontierLocalIdx))
                 IN /\ n > 0
                    /\ n = Len(cons[k].frontierLocalIdx)
                    /\ 0 <= cons[k].minBad
                    /\ cons[k].minBad <= cons[k].maxBad
                    /\ cons[k].maxBad <= n
                    /\ \E B \in SUBSET Range(cons[k].frontierLocalIdx) :
                          cons[k].minBad <= Cardinality(B) /\ Cardinality(B) <= cons[k].maxBad
           /\ (Len(cons) = 1 /\ FitsBudget(grid, cons[1])) => totalWaysNow > 0

\* solve() has returned, not through the fallback, on a board whose only
\* constraint comes from a clue with more revealed bad neighbours than its
\* maximum.
C25_Witness ==
    /\ pc = "returned"
    /\ pastTrivialCases(grid)
    /\ Len(constraints(grid)) = 1
    /\ totalWaysNow > 0
    /\ \E c \in Clues(grid) :
          /\ HiddenNeighbours(grid, c) # {}
          /\ Cardinality(KnownBadNeighbours(grid, c)) > badNeighborRange(grid[c])[2]

\* The same for a clue whose minimum exceeds its hidden neighbours.
C25_MinOverNeighbours ==
    /\ pc = "returned"
    /\ pastTrivialCases(grid)
    /\ Len(constraints(grid)) = 1
    /\ totalWaysNow > 0
    /\ \E c \in Clues(grid) :
          /\ HiddenNeighbours(grid, c) # {}
          /\ badNeighborRange(grid[c])[1] - Cardinality(KnownBadNeighbours(grid, c))
                 > Cardinality(HiddenNeighbours(grid, c))

\* solve() has built a constraint for a clue with three revealed bad
\* neighbours.
C25_ManyKnownBad ==
    /\ pc = "returned"
    /\ pastTrivialCases(grid)
    /\ \E c \in Clues(grid) :
          /\ HiddenNeighbours(grid, c) # {}
          /\ Cardinality(KnownBadNeighbours(grid, c)) >= 3

(***************************************************************************)
(* C24: in the application every event that changes the board (a dropdown  *)
(* selection change, which calls setCell, or the Reset button, which calls *)
(* reset) is followed by solve() running to completion inside the same     *)
(* event handler, before the UI is refreshed and before any further event  *)
(* is handled; so whenever the application is waiting for input, right     *)
(* after start-up included, badProb is the result of solve() on the        *)
(* current grid and the labels show it.                                    *)
(***************************************************************************)
C24_SolvedWhenIdle ==
    /\ [](appPc = "idle" =>
             /\ badProb = solve(grid, [i \in Cells |-> prior])
             /\ badProb = solve(grid, badProb)
             /\ labels = labelTexts(grid, badProb))
    /\ [][/\ (grid' # grid \/ lastOp' \in {"reset", "setCell"}) =>
                 (appPc = "idle" /\ appPc' = "recalc")
          /\ appPc = "recalc" =>
                 (appPc' = "solved" /\ grid' = grid /\ badProb' = solve(grid, badProb))
          /\ labels' # labels => (appPc = "solved" /\ badProb' = badProb /\ grid' = grid)
          /\ appPc' = "idle" => appPc = "solved"]_vars
    /\ (appPc = "recalc") ~> (appPc = "idle")

\* The application waits for input after two dropdown changes, one of them
\* to a clue, with a label that no longer shows the start-up text.
C24_Witness ==
    /\ appPc = "idle"
    /\ nSet = 2
    /\ Clues(grid) # {}
    /\ \E i \in Hidden(grid) : labels[i] # <<40>> /\ labels[i] # <<0>>

\* The application waits for input right after start-up.
C24_StartUp ==
    /\ appPc = "idle"
    /\ nSet = 0
    /\ lastOp = "solve"

(***************************************************************************)
(* C26: the probabilities produced by solve() do not depend on the order   *)
(* in which the components are iterated nor on the order in which cells    *)
(* are assigned inside a component: with exact arithmetic, every           *)
(* permutation of the components and every cell ordering yields the same   *)
(* totalWays and the same badProb for every cell (those of the ascending   *)
(* component order and the stable sort).                                   *)
(***************************************************************************)
C26_OrderIndependent ==
    lastOp = "solve" =>
        LET res == compResults(grid)
        IN /\ badProb = solveFrom(grid, [i \in Cells |-> prior], res)
           /\ pastTrivialCases(grid) =>
                 totalWaysNow = totalWays(compProd(res), interiorPoly(Len(interior(grid))),
                                          remainingBad(grid))

\* The cells of the k-th component taken are in an order std::sort can
\* leave: the number of constraints on a cell never goes up along it.
SortedByKey(k) ==
    LET parent == partition(grid)
        mem == members(parent, mapOrder[k])
        cc == cellConstraints(localConstraints(parent, constraints(grid), mapOrder[k], mem),
                              Len(mem))
        q == sortOrder[k]
    IN \A i \in 1 .. (Len(q) - 1) : Len(cc[q[i] + 1]) >= Len(cc[q[i + 1] + 1])

\* solve() has returned on the normal path with two components taken in
\* descending order of their keys, the cells of one of them in an order
\* other than the ascending one.
C26_Witness ==
    /\ lastOp = "solve"
    /\ pastTrivialCases(grid)
    /\ totalWaysNow > 1
    /\ Len(mapOrder) >= 2
    /\ mapOrder[1] > mapOrder[2]
    /\ \E k \in 1 .. Len(sortOrder) : \E i \in 1 .. (Len(sortOrder[k]) - 1) :
          sortOrder[k][i] > sortOrder[k][i + 1]

\* solve() has returned with the cells of a component in an order std::sort
\* can leave that is not the one of the stable sort, the keys not all equal.
C26_UnstableSort ==
    /\ lastOp = "solve"
    /\ pastTrivialCases(grid)
    /\ totalWaysNow > 1
    /\ \E k \in 1 .. Len(sortOrder) :
          LET parent == partition(grid)
              mem == members(parent, mapOrder[k])
              cc == cellConstraints(localConstraints(parent, constraints(grid),
                                                     mapOrder[k], mem), Len(mem))
          IN /\ SortedByKey(k)
             /\ sortOrder[k] # cellOrder(cc, Len(mem))
             /\ \E i, j \in 1 .. Len(mem) : Len(cc[i]) # Len(cc[j])

\* solve() has returned with the cells of a component in an order that is
\* not sorted by the key.
C26_NotSorted ==
    /\ lastOp = "solve"
    /\ pastTrivialCases(grid)
    /\ totalWaysNow > 1
    /\ \E k \in 1 .. Len(sortOrder) : ~SortedByKey(k)

====
